---- MODULE Spec2Model ----
(***************************************************************************)
(* Model of oman36/email_checker: receive.py (the polling run `main`, the  *)
(* watermark file UIDKeeper, the MIME walker TextBlocksParser, the alert   *)
(* matchers and MailParser, the Slack sink) with alerts.py and servers.py, *)
(* which duplicate parts of receive.py.                                    *)
(*                                                                         *)
(* Python strings are modelled as sequences of tokens.  A token is a       *)
(* string of one or more characters; the literals of the regular           *)
(* expressions are tokens of their own, so a literal matches a text        *)
(* exactly where its tokens occur.  The Cyrillic word of the theme prefix  *)
(* is written "Tema" (the module language has ASCII strings only); it is   *)
(* the only non-ASCII token.                                               *)
(***************************************************************************)
EXTENDS Naturals, Sequences, FiniteSets, TLC

(***************************************************************************)
(* Bounds of the model.                                                    *)
(***************************************************************************)
\* Message identifiers of the mailbox are 1..NumUids.
NumUids == 3
\* Number of runs of main in one behaviour.
MaxRuns == 2

(***************************************************************************)
(* Python values.                                                          *)
(***************************************************************************)
\* Optional[str]: None, or a string.
None == [some |-> FALSE, val |-> <<>>]
Some(s) == [some |-> TRUE, val |-> s]

\* What an f-string renders for an Optional[str]: str(None) is 'None'.
Format(o) == IF o.some THEN o.val ELSE <<"None">>

DigitChars == <<"0", "1", "2", "3", "4", "5", "6", "7", "8", "9">>
Digits == {DigitChars[i] : i \in 1..10}

\* str(n) of a non-negative int: its decimal digits.
RECURSIVE Str(_)
Str(n) == IF n < 10 THEN <<DigitChars[n + 1]>>
          ELSE Str(n \div 10) \o <<DigitChars[(n % 10) + 1]>>

DigitValue(c) == (CHOOSE i \in 1..10 : DigitChars[i] = c) - 1

RECURSIVE DecimalValue(_)
DecimalValue(s) == IF s = <<>> THEN 0
                   ELSE 10 * DecimalValue(SubSeq(s, 1, Len(s) - 1)) + DigitValue(s[Len(s)])

\* int(s): raises ValueError (ok = FALSE) on the empty string and on a string
\* that is not a decimal numeral.
ParseInt(s) ==
    IF s # <<>> /\ \A i \in 1..Len(s) : s[i] \in Digits
    THEN [ok |-> TRUE, val |-> DecimalValue(s)]
    ELSE [ok |-> FALSE, val |-> 0]

\* text.split('\n')
RECURSIVE SplitLines(_)
SplitLines(text) ==
    IF \E i \in 1..Len(text) : text[i] = "\n"
    THEN LET i == CHOOSE j \in 1..Len(text) :
                      text[j] = "\n" /\ \A k \in 1..(j - 1) : text[k] # "\n"
         IN  <<SubSeq(text, 1, i - 1)>> \o SplitLines(SubSeq(text, i + 1, Len(text)))
    ELSE <<text>>

\* StartsWithHtml accepting every text.
StartsWithHtml_any(text) == TRUE

\* text.startswith('<html'): "<html" is a token of its own.
StartsWithHtml(text) == Len(text) >= 1 /\ text[1] = "<html"

(***************************************************************************)
(* Regular expressions of the alert matchers.                              *)
(***************************************************************************)
ThemePrefix == "<b>Tema:</b> Re: omd-dwh | "
Whitespace == {" ", "\t"}
\* The tokens that contain the character '<'.
LtTokens == {"<html", "<p>", "</p>", "<strong>", "</strong>", "</strong> to <strong>",
             "<p>Assignee changed from <strong>", "Assignee changed from <strong>",
             ThemePrefix, "<b>", "<br>"}

NoMatch == [ok |-> FALSE, g1 |-> <<>>, g2 |-> <<>>]

\* The character classes \d, \s and [^<].
IsDigit == "\\d"
IsSpace == "\\s"
NotLt == "[^<]"
InClass(class, t) ==
    CASE class = IsDigit -> t \in Digits
      [] class = IsSpace -> t \in Whitespace
      [] class = NotLt -> t \notin LtTokens

\* The end of the longest run of tokens of the class that starts at s[j]
\* (j - 1 when s[j] is not of the class).
RunEnd(s, j, class) ==
    CHOOSE k \in (j - 1)..Len(s) :
        /\ \A m \in j..k : InClass(class, s[m])
        /\ (k < Len(s) => ~InClass(class, s[k + 1]))

Max(S) == CHOOSE x \in S : \A y \in S : y <= x

\* Whether s[j] = "(!", s[j+1..k] is a non-empty run of digits and s[k+1] = ")".
ThemeTailSpan(s, j, k) ==
    /\ j <= Len(s) /\ s[j] = "(!"
    /\ k >= j + 1
    /\ k + 1 <= Len(s) /\ s[k + 1] = ")"

ThemeTailFrom(s, j) == ThemeTailSpan(s, j, RunEnd(s, j + 1, IsDigit))

\* Whether s[i..] matches  \s*\(!(\d+)\).*  : the whitespace run, "(!", a run
\* of digits and ")".
ThemeTailAt(s, i) == ThemeTailFrom(s, RunEnd(s, i, IsSpace) + 1)

\* The groups of the theme match whose (.+) is s[2..i] and whose "(!" is s[j].
ThemeGroups(s, i, j) ==
    [ok |-> TRUE, g1 |-> SubSeq(s, 2, i),
     g2 |-> SubSeq(s, j + 1, RunEnd(s, j + 1, IsDigit))]

ThemeMatchAt(s, i) == ThemeGroups(s, i, RunEnd(s, i + 1, IsSpace) + 1)

\* _theme_re.match(line):  <b>Tema:</b> Re: omd-dwh \| (.+)\s*\(!(\d+)\).*
\* The greedy (.+) ends at the last token after which the rest still matches.
theme_re(s) ==
    LET ends == {i \in 2..Len(s) : ThemeTailAt(s, i + 1)}
    IN  IF Len(s) >= 1 /\ s[1] = ThemePrefix /\ ends # {}
        THEN ThemeMatchAt(s, Max(ends))
        ELSE NoMatch

\* Whether "<p>", "Assignee changed from <strong>", the non-empty run
\* s[q+2..a], "</strong> to <strong>", the non-empty run s[a+2..b] and
\* "</strong>" stand at s[q..].
AssigneeSpan(s, q, a, b) ==
    /\ q + 1 <= Len(s)
    /\ s[q] = "<p>" /\ s[q + 1] = "Assignee changed from <strong>"
    /\ a >= q + 2
    /\ a + 1 <= Len(s) /\ s[a + 1] = "</strong> to <strong>"
    /\ b >= a + 2
    /\ b + 1 <= Len(s) /\ s[b + 1] = "</strong>"

AssigneeFrom(s, q, a) == AssigneeSpan(s, q, a, RunEnd(s, a + 2, NotLt))

\* Whether  <p>Assignee changed from <strong>([^<]+)</strong> to
\* <strong>([^<]+)</strong>  matches at s[q..].
AssigneeAt(s, q) == AssigneeFrom(s, q, RunEnd(s, q + 2, NotLt))

\* The groups of the assignee match that starts at s[q], its first name
\* ending at s[a].
AssigneeGroups(s, q, a) ==
    [ok |-> TRUE, g1 |-> SubSeq(s, q + 2, a),
     g2 |-> SubSeq(s, a + 2, RunEnd(s, a + 2, NotLt))]

AssigneeMatchAt(s, q) == AssigneeGroups(s, q, RunEnd(s, q + 2, NotLt))

\* _assignee_re.match(line): the greedy leading .* takes the last place of the
\* line where the rest matches.
assignee_re(s) ==
    LET starts == {q \in 1..Len(s) : AssigneeAt(s, q)}
    IN  IF starts # {} THEN AssigneeMatchAt(s, Max(starts)) ELSE NoMatch

\* Whether "Merge Request !", the non-empty run of digits s[q+1..k],
\* " was merged" and at least one more character stand at s[q..].
MergeDoneSpan(s, q, k) ==
    /\ s[q] = "Merge Request !"
    /\ k >= q + 1
    /\ k + 1 <= Len(s) /\ s[k + 1] = " was merged"
    /\ k + 2 <= Len(s)

\* Whether  Merge Request !(\d+) was merged.+  matches at s[q..].
MergeDoneAt(s, q) == MergeDoneSpan(s, q, RunEnd(s, q + 1, IsDigit))

MergeDoneMatchAt(s, q) ==
    [ok |-> TRUE, g1 |-> SubSeq(s, q + 1, RunEnd(s, q + 1, IsDigit)), g2 |-> <<>>]

\* _merge_done_re.match(line):  .+Merge Request !(\d+) was merged.+
\* The leading .+ needs at least one character before "Merge Request".
merge_done_re(s) ==
    LET starts == {q \in 2..Len(s) : MergeDoneAt(s, q)}
    IN  IF starts # {} THEN MergeDoneMatchAt(s, Max(starts)) ELSE NoMatch

(***************************************************************************)
(* Alert matchers (AlertGroup and its subclasses, MailParser).             *)
(***************************************************************************)
\* regexp.match(line) for the three compiled patterns.
re_match(regexp, line) ==
    CASE regexp = "_theme_re" -> theme_re(line)
      [] regexp = "_assignee_re" -> assignee_re(line)
      [] regexp = "_merge_done_re" -> merge_done_re(line)

\* FirstMatch returning the last line that matched.
FirstMatch_last(match) ==
    LET hits == {i \in DOMAIN match : match[i].ok}
    IN  IF hits = {} THEN NoMatch
        ELSE match[CHOOSE i \in hits : \A j \in hits : j <= i]

\* The loop of _search_re over the match of every line: the first one that
\* matched.
FirstMatch(match) ==
    LET hits == {i \in DOMAIN match : match[i].ok}
    IN  IF hits = {} THEN NoMatch
        ELSE match[CHOOSE i \in hits : \A j \in hits : i <= j]

\* AlertGroup._search_re: the match of the first line that matches.
search_re(text, regexp) ==
    FirstMatch([i \in 1..Len(SplitLines(text)) |-> re_match(regexp, SplitLines(text)[i])])

get_rm_link(mr_id) == <<"https://gitlab.omd.ru/dwh/omd-dwh/merge_requests/">> \o mr_id

\* The return statement of _get_theme for the match of _search_re.
ThemeOf(match) ==
    IF match.ok THEN <<Some(match.g1), Some(get_rm_link(match.g2))>>
    ELSE <<None, None>>

\* AlertGroup._get_theme: (title, link) of the first theme line, or (None, None).
get_theme(text) == ThemeOf(search_re(text, "_theme_re"))

target == <<"Petrov Vladimir">>

\* The body of AssigneeAlert.get_result after its match and theme are bound.
AssigneeResult(match, theme) ==
    IF match.ok
    THEN IF target # match.g1 /\ target # match.g2 THEN None
         ELSE Some(Format(theme[1]) \o <<" ">> \o Format(theme[2])
                   \o <<" Assignee changed from *">> \o match.g1
                   \o <<"* to *">> \o match.g2 \o <<"*">>)
    ELSE None

AssigneeAlert_get_result(text) ==
    AssigneeResult(search_re(text, "_assignee_re"), get_theme(text))

\* The body of MergeDoneAlert.get_result after its match and theme are bound.
MergeDoneResult(match, theme) ==
    IF match.ok
    THEN Some(<<"Merged ">> \o Format(theme[1]) \o <<" ">> \o Format(theme[2]))
    ELSE None

MergeDoneAlert_get_result(text) ==
    MergeDoneResult(search_re(text, "_merge_done_re"), get_theme(text))

\* FirstResult with the matchers tried in the opposite order.
FirstResult_reversed(r1, r2) == IF r2.some THEN r2 ELSE r1

\* The loop of MailParser.parse over _MAILS = (AssigneeAlert, MergeDoneAlert).
FirstResult(r1, r2) == IF r1.some THEN r1 ELSE r2

\* MailParser.parse: the first matcher of _MAILS whose result is not None.
MailParser_parse(text) ==
    FirstResult(AssigneeAlert_get_result(text), MergeDoneAlert_get_result(text))

(***************************************************************************)
(* email.message.Message, as far as TextBlocksParser reads it.             *)
(*   maintype : get_content_maintype()                                     *)
(*   is_list  : whether the payload is a list of sub-messages              *)
(*   parts    : the sub-messages, in declaration order                     *)
(*   body     : the payload bytes: token sequence `text` encoded in `enc`  *)
(*   charset  : the charset parameter of Content-Type, <<>> when absent    *)
(* A str is [py |-> "str", val |-> tokens].                                *)
(***************************************************************************)
Message(maintype, is_list, parts, body, charset) ==
    [py |-> "Message", maintype |-> maintype, is_list |-> is_list, parts |-> parts,
     body |-> body, charset |-> charset]

PyStr(s) == [py |-> "str", val |-> s]

Bytes(enc, text) == [enc |-> enc, text |-> text]

DEFAULT_CHARSET == "utf-8"
KnownCodecs == {"utf-8", "koi8-r"}
NonAscii == {ThemePrefix}

\* bytes.decode(charset, 'replace') of a known codec: the text when the bytes
\* are in that codec; otherwise every non-ASCII character comes out as
\* another character (shown as '?').
Garble(t) == IF t = ThemePrefix THEN "<b>????:</b> Re: omd-dwh | " ELSE t

Decode(body, charset) ==
    IF charset = body.enc THEN body.text
    ELSE [i \in 1..Len(body.text) |-> Garble(body.text[i])]

\* part.get_param('charset', default)
get_charset(part) == IF part.charset = <<>> THEN DEFAULT_CHARSET ELSE part.charset[1]

\* get_payload with every sub-message listed twice.
get_payload_doubled(msg) ==
    IF msg.is_list THEN msg.parts \o msg.parts
    ELSE [i \in 1..Len(msg.body.text) |-> PyStr(<<msg.body.text[i]>>)]

\* msg.get_payload(): the list of sub-messages, or the body as a str.
get_payload(msg) ==
    IF msg.is_list THEN msg.parts
    ELSE [i \in 1..Len(msg.body.text) |-> PyStr(<<msg.body.text[i]>>)]

\* Enumerate counting from 0, as enumerate(items) does.
Enumerate_from_zero(prefix, items) ==
    [i \in 1..Len(items) |-> [path |-> prefix \o Str(i - 1), part |-> items[i]]]

\* [(f'{prefix}{i}', m) for i, m in enumerate(items, 1)]; enumerating a str
\* gives its characters.
Enumerate(prefix, items) ==
    [i \in 1..Len(items) |-> [path |-> prefix \o Str(i), part |-> items[i]]]

\* The while loop of TextBlocksParser.parse: `parts` is the queue, `yielded`
\* the fragments yielded so far, `pops` the number of parts.pop(0) so far.
\* raised names the exception that ends the generator, "" for a normal end.
RECURSIVE WalkLoop(_, _, _)
WalkLoop(parts, yielded, pops) ==
    IF parts = <<>> THEN [yielded |-> yielded, raised |-> "", pops |-> pops]
    ELSE LET path == Head(parts).path
             part == Head(parts).part
             rest == Tail(parts)
         IN  IF part.py # "Message"
             THEN [yielded |-> yielded, raised |-> "AttributeError", pops |-> pops + 1]
             ELSE IF part.maintype = "text"
             THEN IF get_charset(part) \notin KnownCodecs
                  THEN [yielded |-> yielded, raised |-> "LookupError", pops |-> pops + 1]
                  ELSE WalkLoop(rest,
                                Append(yielded, [path |-> path,
                                                 text |-> Decode(part.body, get_charset(part))]),
                                pops + 1)
             ELSE IF part.maintype = "multipart"
             THEN WalkLoop(rest \o Enumerate(path \o <<".">>, get_payload(part)),
                           yielded, pops + 1)
             ELSE WalkLoop(rest, yielded, pops + 1)

\* root_messages = [payload] if type_ != 'multipart' else payload
root_messages(msg) ==
    IF msg.maintype # "multipart"
    THEN <<IF msg.is_list THEN [py |-> "list"] ELSE PyStr(msg.body.text)>>
    ELSE get_payload(msg)

\* TextBlocksParser.parse(msg), run to its end.
TextBlocksParser_parse(msg) == WalkLoop(Enumerate(<<>>, root_messages(msg)), <<>>, 0)

(***************************************************************************)
(* Texts and messages the mailbox is drawn from.                           *)
(***************************************************************************)
RECURSIVE JoinLines(_)
JoinLines(lines) ==
    IF lines = <<>> THEN <<>>
    ELSE IF Len(lines) = 1 THEN lines[1]
    ELSE lines[1] \o <<"\n">> \o JoinLines(Tail(lines))

\* The theme line of a reply to the thread of merge request `num` titled
\* `title`; `gap` is what stands between the title and "(!".
ThemeLine(title, gap, num) == <<ThemePrefix>> \o title \o gap \o <<"(!">> \o num \o <<")">>

\* `Assignee changed from <strong>A</strong> to <strong>B</strong>` between
\* `before` and `after`.
AssigneeLine(before, A, B, after) ==
    before \o <<"Assignee changed from <strong>">> \o A \o <<"</strong> to <strong>">>
           \o B \o <<"</strong>">> \o after

\* `Merge Request !N was merged` between `before` and `after`.
MergeLine(before, num, after) ==
    before \o <<"Merge Request !">> \o num \o <<" was merged">> \o after

HtmlText(lines) == JoinLines(<<<<"<html", ">">>>> \o lines)

Theme42 == ThemeLine(<<"Fix pipeline">>, <<" ">>, <<"4", "2">>)
Theme17 == ThemeLine(<<"Add index">>, <<" ">>, <<"1", "7">>)

TextAssignee ==
    HtmlText(<<Theme42,
               AssigneeLine(<<"<p>">>, <<"Ivanov Petr">>, <<"Petrov Vladimir">>, <<"</p>">>)>>)
\* The same with nothing between the title and "(!".
TextAssigneeTight ==
    HtmlText(<<ThemeLine(<<"Fix pipeline">>, <<>>, <<"4", "2">>),
               AssigneeLine(<<"<p>">>, <<"Ivanov Petr">>, <<"Petrov Vladimir">>, <<"</p>">>)>>)
TextMerged == HtmlText(<<Theme17, MergeLine(<<"<p>">>, <<"1", "7">>, <<"</p>">>)>>)
TextNoAlert == HtmlText(<<Theme42, <<"<p>", "hello", "</p>">>>>)
\* An alert text that does not start with '<html'.
TextBareAssignee ==
    JoinLines(<<Theme42,
                AssigneeLine(<<"<p>">>, <<"Ivanov Petr">>, <<"Petrov Vladimir">>, <<"</p>">>)>>)

TextPart(text) == Message("text", FALSE, <<>>, Bytes("utf-8", text), <<>>)
TextPartIn(text, enc, charset) == Message("text", FALSE, <<>>, Bytes(enc, text), charset)
Multipart(parts) == Message("multipart", TRUE, parts, Bytes("utf-8", <<>>), <<>>)
ImagePart == Message("image", FALSE, <<>>, Bytes("utf-8", <<"PNG">>), <<>>)

MsgOneAlert == Multipart(<<TextPart(TextAssignee)>>)
MsgOneAlertTight == Multipart(<<TextPart(TextAssigneeTight)>>)
MsgTwoAlerts == Multipart(<<TextPart(TextAssignee), TextPart(TextMerged)>>)
MsgPlainRoot == TextPart(TextAssignee)
MsgQuiet == Multipart(<<TextPart(TextBareAssignee), ImagePart, TextPart(TextNoAlert)>>)

\* The messages of the mailbox of the polling runs.
CoreMessages == {MsgTwoAlerts, MsgPlainRoot, MsgQuiet}

Leaf(t) == TextPart(<<t>>)

\* children [text, multipart[text, text]]
MsgTextThenNested == Multipart(<<Leaf("a"), Multipart(<<Leaf("b"), Leaf("c")>>)>>)
\* children [multipart[text], text]
MsgNestedThenText == Multipart(<<Multipart(<<Leaf("a")>>), Leaf("b")>>)
MsgDeep ==
    Multipart(<<Multipart(<<Multipart(<<Leaf("a")>>), Leaf("b")>>), ImagePart, Leaf("c"),
                Multipart(<<Leaf("d")>>)>>)
\* The second part declares a charset Python has no codec for.
MsgBadCharset ==
    Multipart(<<Leaf("a"), TextPartIn(<<"b">>, "utf-8", <<"bogus">>), Leaf("c")>>)
\* Both parts are koi8-r bytes; only the first declares it.
MsgKoi8 ==
    Multipart(<<TextPartIn(Theme42, "koi8-r", <<"koi8-r">>),
                TextPartIn(Theme17, "koi8-r", <<>>)>>)
\* Content-Type multipart/* whose body could not be split in parts: the
\* payload is a str.
MsgBrokenMultipart == Message("multipart", FALSE, <<>>, Bytes("utf-8", <<"x", "y">>), <<>>)
MsgEmptyMultipart == Multipart(<<>>)

\* The merge notice alone on its line, and the same inside <p>...</p>.
TextMergedBare ==
    HtmlText(<<ThemeLine(<<"Add index">>, <<>>, <<"1", "7">>),
               MergeLine(<<>>, <<"1", "7">>, <<>>)>>)
TextMergedTight ==
    HtmlText(<<ThemeLine(<<"Add index">>, <<>>, <<"1", "7">>),
               MergeLine(<<"<p>">>, <<"1", "7">>, <<"</p>">>)>>)
\* An assignee change that names the target and a merge notice.
TextBoth ==
    HtmlText(<<ThemeLine(<<"Fix pipeline">>, <<>>, <<"4", "2">>),
               AssigneeLine(<<"<p>">>, <<"Ivanov Petr">>, <<"Petrov Vladimir">>, <<"</p>">>),
               MergeLine(<<"<p>">>, <<"4", "2">>, <<"</p>">>)>>)
\* An assignee change between two other people and a merge notice.
TextDeclinedThenMerged ==
    HtmlText(<<ThemeLine(<<"Fix pipeline">>, <<>>, <<"4", "2">>),
               AssigneeLine(<<"<p>">>, <<"Ivanov Petr">>, <<"Sidorov Ivan">>, <<"</p>">>),
               MergeLine(<<"<p>">>, <<"4", "2">>, <<"</p>">>)>>)
\* An assignee change between two other people, then one to the target.
TextOtherThenTarget ==
    HtmlText(<<ThemeLine(<<"Fix pipeline">>, <<>>, <<"4", "2">>),
               AssigneeLine(<<"<p>">>, <<"Ivanov Petr">>, <<"Sidorov Ivan">>, <<"</p>">>),
               AssigneeLine(<<"<p>">>, <<"Sidorov Ivan">>, <<"Petrov Vladimir">>, <<"</p>">>)>>)

MsgMergedBare == Multipart(<<TextPart(TextMergedBare)>>)
MsgMergedTight == Multipart(<<TextPart(TextMergedTight)>>)
MsgBoth == Multipart(<<TextPart(TextBoth)>>)
MsgDeclinedThenMerged == Multipart(<<TextPart(TextDeclinedThenMerged)>>)
MsgOtherThenTarget == Multipart(<<TextPart(TextOtherThenTarget)>>)
\* The only text part is an alert that does not start with '<html'.
MsgBareOnly == Multipart(<<TextPart(TextBareAssignee)>>)

\* The messages of the one-message mailboxes.
WideMessages ==
    {MsgOneAlert, MsgOneAlertTight, MsgTextThenNested, MsgNestedThenText, MsgDeep, MsgBadCharset, MsgKoi8,
     MsgBrokenMultipart, MsgEmptyMultipart, ImagePart,
     MsgMergedBare, MsgMergedTight, MsgBoth, MsgDeclinedThenMerged, MsgOtherThenTarget,
     MsgBareOnly}

Messages == CoreMessages \cup WideMessages

(***************************************************************************)
(* State of the program and of its environment.                            *)
(***************************************************************************)
VARIABLES
    mailbox,    \* the mailbox: message identifier -> Message
    file,       \* max_uid.txt: [exists, content]
    pc,         \* where main is: "idle" between runs, else the step to take
    runs,       \* number of runs of main started so far
    max_uid,    \* main's local max_uid
    uids,       \* the identifiers of the listing the for loop has not reached
    cur,        \* the identifier of the last message fetched (0: none)
    walk,       \* parser.parse(message) of that message: the generator's run
    fi,         \* number of fragments main has taken from the generator
    result,     \* main's local result
    conn,       \* the IMAP connection: "none", "open" or "closed"
    \* History of the current run, kept for the properties.
    file0,      \* the file when the run started
    readOK,     \* whether get_uid read and parsed the file
    listing,    \* what get_uids returned
    fetched,    \* the identifiers server.fetch was called with, in order
    fails,      \* the kinds of failure that occurred
    outcome,    \* "none", "running", "finished" (main returned) or "raised"
    sentRun,    \* identifier -> number of slack.send calls in this run
    \* History over all runs.
    sentBefore, \* identifier -> number of slack.send calls in earlier runs
    everReadFail, \* whether get_uid failed to read the file in some run
    maxSaved    \* the greatest watermark save_uid has written so far

vars == <<mailbox, file, pc, runs, max_uid, uids, cur, walk, fi, result, conn, file0,
          readOK, listing, fetched, fails, outcome, sentRun, sentBefore, everReadFail,
          maxSaved>>

Uids == DOMAIN mailbox

Absent == [exists |-> FALSE, content |-> <<>>]
FileOf(content) == [exists |-> TRUE, content |-> content]

\* UIDKeeper.get_uid on file f when the read itself works: the watermark, or
\* ok = FALSE when open() or int() raises.
ReadUid(f) == IF f.exists THEN ParseInt(f.content) ELSE [ok |-> FALSE, val |-> 0]

\* The strictly ascending sequence of the members of S.
RECURSIVE Ascending(_)
Ascending(S) ==
    IF S = {} THEN <<>>
    ELSE LET m == CHOOSE x \in S : \A y \in S : x <= y
         IN  <<m>> \o Ascending(S \ {m})

NoSends == [u \in Uids |-> 0]
NoWalk == [yielded |-> <<>>, raised |-> "", pops |-> 0]

InitRun ==
    /\ pc = "idle" /\ runs = 0 /\ max_uid = 0 /\ uids = <<>> /\ cur = 0
    /\ walk = NoWalk /\ fi = 0 /\ result = None
    /\ conn = "none" /\ file0 = file /\ readOK = FALSE /\ listing = <<>>
    /\ fetched = <<>> /\ fails = {} /\ outcome = "none"
    /\ sentRun = NoSends /\ sentBefore = NoSends
    /\ everReadFail = FALSE
    /\ maxSaved = 0

\* Before the first run: the watermark file is absent or holds "0"; the
\* mailbox holds NumUids of the core messages, or any one message.
Init ==
    /\ mailbox \in [1..NumUids -> CoreMessages] \cup [1..1 -> Messages]
    /\ file \in {Absent, FileOf(Str(0))}
    /\ InitRun

\* The exception propagates out of main: the run is over, nothing is saved.
Raise(kind) ==
    /\ pc' = "idle"
    /\ outcome' = "raised"
    /\ fails' = fails \cup {kind}

\* The start of main up to UIDKeeper.get_uid().
StartRun(ok, uid) ==
    /\ runs < MaxRuns
    /\ runs' = runs + 1
    /\ max_uid' = uid
    /\ readOK' = ok
    /\ everReadFail' = (everReadFail \/ ~ok)
    /\ file0' = file
    /\ pc' = "enter"
    /\ outcome' = "running"
    /\ fails' = IF ok THEN {} ELSE {"read"}
    /\ uids' = <<>> /\ cur' = 0 /\ walk' = NoWalk /\ fi' = 0 /\ result' = None
    /\ conn' = "none"
    /\ listing' = <<>> /\ fetched' = <<>>
    /\ sentBefore' = [u \in Uids |-> sentBefore[u] + sentRun[u]]
    /\ sentRun' = NoSends
    /\ UNCHANGED <<mailbox, file, maxSaved>>

\* get_uid returns the stored watermark.
GetUidOk ==
    /\ pc = "idle"
    /\ LET stored == ReadUid(file)
       IN  stored.ok /\ StartRun(TRUE, stored.val)

\* get_uid: open(), read() or int() raises (file absent, not a numeral, or an
\* I/O error); the error is logged and 0 returned.
GetUidFail ==
    /\ pc = "idle"
    /\ StartRun(FALSE, 0)

\* YandexLogginedServer.__enter__ succeeds.
EnterOk ==
    /\ pc = "enter"
    /\ conn' = "open"
    /\ pc' = "list"
    /\ UNCHANGED <<mailbox, file, runs, max_uid, uids, cur, walk, fi, result, file0,
                   readOK, listing, fetched, fails, outcome, sentRun, sentBefore,
                   everReadFail, maxSaved>>

\* imaplib.IMAP4_SSL(host, port) raises: no connection was opened.
EnterConnectFail ==
    /\ pc = "enter"
    /\ Raise("connect")
    /\ UNCHANGED <<mailbox, file, runs, max_uid, uids, cur, walk, fi, result, conn,
                   file0, readOK, listing, fetched, sentRun, sentBefore, everReadFail,
                   maxSaved>>

\* login or select raises: __exit__ closes the connection, the exception goes on.
EnterLoginFail ==
    /\ pc = "enter"
    /\ conn' = "closed"
    /\ Raise("login")
    /\ UNCHANGED <<mailbox, file, runs, max_uid, uids, cur, walk, fi, result, file0,
                   readOK, listing, fetched, sentRun, sentBefore, everReadFail,
                   maxSaved>>

\* server.get_uids returns the listing L.
ListOk ==
    /\ pc = "list"
    /\ \E S \in SUBSET Uids :
          /\ listing' = Ascending(S)
          /\ uids' = listing'
    /\ pc' = "loop"
    /\ UNCHANGED <<mailbox, file, runs, max_uid, cur, walk, fi, result, conn, file0,
                   readOK, fetched, fails, outcome, sentRun, sentBefore, everReadFail,
                   maxSaved>>

\* ListFail with the exception swallowed as an empty listing: the run goes on
\* to save_uid.
ListFail_swallowed ==
    /\ pc = "list"
    /\ fails' = fails \cup {"list"}
    /\ pc' = "loop"
    /\ UNCHANGED <<mailbox, file, runs, max_uid, uids, cur, walk, fi, result, conn,
                   file0, readOK, listing, fetched, outcome, sentRun, sentBefore,
                   everReadFail, maxSaved>>

\* server.get_uids raises: the with block is left, the connection closed.
ListFail ==
    /\ pc = "list"
    /\ conn' = "closed"
    /\ Raise("list")
    /\ UNCHANGED <<mailbox, file, runs, max_uid, uids, cur, walk, fi, result, file0,
                   readOK, listing, fetched, sentRun, sentBefore, everReadFail,
                   maxSaved>>

\* if uid <= max_uid: continue
Skip ==
    /\ pc = "loop" /\ uids # <<>>
    /\ Head(uids) <= max_uid
    /\ uids' = Tail(uids)
    /\ UNCHANGED <<mailbox, file, pc, runs, max_uid, cur, walk, fi, result, conn,
                   file0, readOK, listing, fetched, fails, outcome, sentRun,
                   sentBefore, everReadFail, maxSaved>>

\* FetchFail with max_uid assigned only after a successful fetch.
FetchFail_late ==
    /\ pc = "loop" /\ uids # <<>>
    /\ Head(uids) > max_uid
    /\ fetched' = Append(fetched, Head(uids))
    /\ fails' = fails \cup {"fetch"}
    /\ uids' = Tail(uids)
    /\ UNCHANGED <<mailbox, file, pc, runs, max_uid, cur, walk, fi, result, conn,
                   file0, readOK, listing, outcome, sentRun, sentBefore, everReadFail,
                   maxSaved>>

\* max_uid = uid; server.fetch(uid) raises: logged, continue.
FetchFail ==
    /\ pc = "loop" /\ uids # <<>>
    /\ Head(uids) > max_uid
    /\ max_uid' = Head(uids)
    /\ fetched' = Append(fetched, Head(uids))
    /\ fails' = fails \cup {"fetch"}
    /\ uids' = Tail(uids)
    /\ UNCHANGED <<mailbox, file, pc, runs, cur, walk, fi, result, conn, file0, readOK,
                   listing, outcome, sentRun, sentBefore, everReadFail, maxSaved>>

\* max_uid = uid; server.fetch(uid) returns the message; parser.parse(message)
\* is called (the generator runs as main takes its fragments).
FetchOk ==
    /\ pc = "loop" /\ uids # <<>>
    /\ Head(uids) > max_uid
    /\ max_uid' = Head(uids)
    /\ fetched' = Append(fetched, Head(uids))
    /\ uids' = Tail(uids)
    /\ cur' = Head(uids)
    /\ walk' = TextBlocksParser_parse(mailbox[Head(uids)])
    /\ fi' = 0
    /\ pc' = "frag"
    /\ UNCHANGED <<mailbox, file, runs, result, conn, file0, readOK, listing, fails,
                   outcome, sentRun, sentBefore, everReadFail, maxSaved>>

\* The fragment the for loop over parser.parse(message) takes next.
HasFragment == pc = "frag" /\ fi < Len(walk.yielded)
Fragment == walk.yielded[fi + 1]

\* `if result:` -- a result that is not None and not the empty string.
Truthy(r) == r.some /\ r.val # <<>>

\* RaiseInLoop with __exit__ not closing the connection.
RaiseInLoop_leaked(kind) ==
    /\ conn' = conn
    /\ Raise(kind)

\* An exception leaves the with block: __exit__ closes the connection.
RaiseInLoop(kind) ==
    /\ conn' = "closed"
    /\ Raise(kind)

\* if not text.startswith('<html'): continue
FragNotHtml ==
    /\ HasFragment
    /\ ~StartsWithHtml(Fragment.text)
    /\ fi' = fi + 1
    /\ UNCHANGED <<mailbox, file, pc, runs, max_uid, uids, cur, walk, result, conn,
                   file0, readOK, listing, fetched, fails, outcome, sentRun,
                   sentBefore, everReadFail, maxSaved>>

\* Writing {uid}_{path}.html raises.
WriteHtmlFail ==
    /\ HasFragment
    /\ StartsWithHtml(Fragment.text)
    /\ RaiseInLoop("write_html")
    /\ UNCHANGED <<mailbox, file, runs, max_uid, uids, cur, walk, fi, result, file0,
                   readOK, listing, fetched, sentRun, sentBefore, everReadFail,
                   maxSaved>>

\* The fragment is written to {uid}_{path}.html; result = MailParser.parse(text);
\* `if result:` leads to slack.send, otherwise to the next fragment.
Match ==
    /\ HasFragment
    /\ StartsWithHtml(Fragment.text)
    /\ result' = MailParser_parse(Fragment.text)
    /\ IF Truthy(result')
       THEN pc' = "send" /\ fi' = fi
       ELSE pc' = pc /\ fi' = fi + 1
    /\ UNCHANGED <<mailbox, file, runs, max_uid, uids, cur, walk, conn, file0, readOK,
                   listing, fetched, fails, outcome, sentRun, sentBefore, everReadFail,
                   maxSaved>>

\* slack.send(result) was invoked for the message of cur.
Sent ==
    /\ pc = "send"
    /\ sentRun' = [sentRun EXCEPT ![cur] = @ + 1]

\* slack.send(result) posts the notification.
SendOk ==
    /\ Sent
    /\ fi' = fi + 1
    /\ pc' = "frag"
    /\ UNCHANGED <<mailbox, file, runs, max_uid, uids, cur, walk, result, conn, file0,
                   readOK, listing, fetched, fails, outcome, sentBefore, everReadFail,
                   maxSaved>>

\* slack.send(result): urlopen raises HTTPError, which send catches and logs.
SendHTTPError ==
    /\ Sent
    /\ fails' = fails \cup {"send_http"}
    /\ fi' = fi + 1
    /\ pc' = "frag"
    /\ UNCHANGED <<mailbox, file, runs, max_uid, uids, cur, walk, result, conn, file0,
                   readOK, listing, fetched, outcome, sentBefore, everReadFail,
                   maxSaved>>

\* slack.send(result): urlopen raises URLError (no HTTP response: DNS, refused
\* connection, timeout), which send does not catch.
SendURLError ==
    /\ Sent
    /\ RaiseInLoop("send_url")
    /\ UNCHANGED <<mailbox, file, runs, max_uid, uids, cur, walk, fi, result, file0,
                   readOK, listing, fetched, sentBefore, everReadFail, maxSaved>>

\* The generator is exhausted: back to the for loop over uids.
ParseEnd ==
    /\ pc = "frag" /\ fi = Len(walk.yielded) /\ walk.raised = ""
    /\ pc' = "loop"
    /\ UNCHANGED <<mailbox, file, runs, max_uid, uids, cur, walk, fi, result, conn,
                   file0, readOK, listing, fetched, fails, outcome, sentRun,
                   sentBefore, everReadFail, maxSaved>>

\* The generator raises instead of yielding its next fragment.
ParseRaise ==
    /\ pc = "frag" /\ fi = Len(walk.yielded) /\ walk.raised # ""
    /\ RaiseInLoop("parse")
    /\ UNCHANGED <<mailbox, file, runs, max_uid, uids, cur, walk, fi, result, file0,
                   readOK, listing, fetched, sentRun, sentBefore, everReadFail,
                   maxSaved>>

\* The for loop is over: the with block is left, the connection closed.
LoopEnd ==
    /\ pc = "loop" /\ uids = <<>>
    /\ conn' = "closed"
    /\ pc' = "save"
    /\ UNCHANGED <<mailbox, file, runs, max_uid, uids, cur, walk, fi, result, file0,
                   readOK, listing, fetched, fails, outcome, sentRun, sentBefore,
                   everReadFail, maxSaved>>

\* The for loop is over and close() raises in __exit__.
LoopEndCloseFail ==
    /\ pc = "loop" /\ uids = <<>>
    /\ RaiseInLoop("close")
    /\ UNCHANGED <<mailbox, file, runs, max_uid, uids, cur, walk, fi, result, file0,
                   readOK, listing, fetched, sentRun, sentBefore, everReadFail,
                   maxSaved>>

\* UIDKeeper.save_uid(max_uid) writes str(max_uid); main logs 'Finish.'.
SaveOk ==
    /\ pc = "save"
    /\ file' = FileOf(Str(max_uid))
    /\ maxSaved' = IF max_uid > maxSaved THEN max_uid ELSE maxSaved
    /\ pc' = "idle"
    /\ outcome' = "finished"
    /\ UNCHANGED <<mailbox, runs, max_uid, uids, cur, walk, fi, result, conn, file0,
                   readOK, listing, fetched, fails, sentRun, sentBefore, everReadFail>>

\* save_uid: open(..., 'w+') raises; the file is as it was.
SaveOpenFail ==
    /\ pc = "save"
    /\ Raise("save_open")
    /\ UNCHANGED <<mailbox, file, runs, max_uid, uids, cur, walk, fi, result, conn,
                   file0, readOK, listing, fetched, sentRun, sentBefore, everReadFail,
                   maxSaved>>

\* save_uid: open(..., 'w+') has truncated the file, then write() or the
\* closing flush raises: the file is left empty.
SaveWriteFail ==
    /\ pc = "save"
    /\ file' = FileOf(<<>>)
    /\ Raise("save_write")
    /\ UNCHANGED <<mailbox, runs, max_uid, uids, cur, walk, fi, result, conn, file0,
                   readOK, listing, fetched, sentRun, sentBefore, everReadFail,
                   maxSaved>>

Next ==
    \/ GetUidOk \/ GetUidFail
    \/ EnterOk \/ EnterConnectFail \/ EnterLoginFail
    \/ ListOk \/ ListFail
    \/ Skip \/ FetchFail \/ FetchOk
    \/ FragNotHtml \/ WriteHtmlFail \/ Match
    \/ SendOk \/ SendHTTPError \/ SendURLError
    \/ ParseEnd \/ ParseRaise
    \/ LoopEnd \/ LoopEndCloseFail
    \/ SaveOk \/ SaveOpenFail \/ SaveWriteFail

Spec == Init /\ [][Next]_vars

(***************************************************************************)
(* Properties.                                                             *)
(***************************************************************************)
RunOver == pc = "idle" /\ outcome \in {"finished", "raised"}

\* What get_uid returns for file f: the stored number, 0 when it cannot be read.
Watermark(f) == IF ReadUid(f).ok THEN ReadUid(f).val ELSE 0

\* The greatest of w and the members of sequence L.
MaxWith(w, L) ==
    CHOOSE x \in {w} \cup {L[i] : i \in 1..Len(L)} :
        \A y \in {w} \cup {L[i] : i \in 1..Len(L)} : y <= x

Above(L, w) == LET gt(u) == u > w IN SelectSeq(L, gt)

TotalSent(u) == sentBefore[u] + sentRun[u]

\* C1: a run that read the stored watermark W, got the ascending listing L
\* and met no failure other than fetch failures has called fetch exactly for
\* the identifiers of L above W, in ascending order, and has persisted
\* max(W, max(L)).
C1_FetchesAboveWatermarkAndSavesMax ==
    (RunOver /\ readOK /\ fails \subseteq {"fetch"}) =>
        /\ outcome = "finished"
        /\ fetched = Above(listing, Watermark(file0))
        /\ file = FileOf(Str(MaxWith(Watermark(file0), listing)))

\* The spec's example, scaled: W = 1, L = [1, 2, 3]; the fetch of 2 fails, 3
\* is fetched; 2 and 3 were processed and 3 is persisted.
C1_Witness ==
    /\ RunOver /\ readOK /\ fails = {"fetch"} /\ outcome = "finished"
    /\ Watermark(file0) = 1 /\ listing = <<1, 2, 3>>
    /\ fetched = <<2, 3>> /\ cur = 3
    /\ file = FileOf(Str(3))

\* The number of fragments of message m that make main call slack.send.
RECURSIVE CountAlerts(_)
CountAlerts(frags) ==
    IF frags = <<>> THEN 0
    ELSE (IF StartsWithHtml(Head(frags).text) /\ Truthy(MailParser_parse(Head(frags).text))
          THEN 1 ELSE 0) + CountAlerts(Tail(frags))

AlertFragments(m) == CountAlerts(TextBlocksParser_parse(m).yielded)

\* C2: over any sequence of runs in which every get_uid read the file,
\* slack.send is invoked at most once for any message identifier.  Stated
\* for the messages with at most one alert fragment, which no single run
\* notifies twice.
C2_AtMostOneSendPerIdentifierAcrossRuns ==
    ~everReadFail =>
        \A u \in Uids : AlertFragments(mailbox[u]) <= 1 => TotalSent(u) <= 1

\* C3: within one run slack.send is invoked at most once for a fetched
\* message: after the first notification of a message its remaining
\* fragments are not scanned.
C3_AtMostOneSendPerMessage ==
    \A u \in Uids : sentRun[u] <= 1

\* C4: a failure of slack.send, an HTTP error response or a network-level
\* failure, never leaves send: a run whose only failures are send failures
\* finishes and persists its watermark candidate.
C4_SendFailureNeverPropagates ==
    (RunOver /\ fails # {} /\ fails \subseteq {"send_http", "send_url"}) =>
        /\ outcome = "finished"
        /\ file = FileOf(Str(max_uid))

\* C5: when get_uids fails the run ends without save_uid: the file is as it
\* was when the run started, nothing was fetched and nothing sent.
C5_ListFailureLeavesWatermark ==
    ("list" \in fails) =>
        /\ pc = "idle" /\ outcome = "raised"
        /\ file = file0
        /\ fetched = <<>>
        /\ \A u \in Uids : sentRun[u] = 0

\* A run that found the watermark 2 stored and failed to list.
C5_Witness ==
    /\ "list" \in fails /\ readOK
    /\ Watermark(file0) = 2 /\ file = FileOf(Str(2))

\* C6: when save_uid fails, at whatever point, the next get_uid reads the
\* value that was persisted before.
C6_FailedSaveKeepsWatermark ==
    (RunOver /\ fails \cap {"save_open", "save_write"} # {}) =>
        Watermark(file) = Watermark(file0)

\* C7: every value save_uid writes is at least every value persisted before
\* it, so the value on file after a finished run is the greatest ever
\* written.
C7_PersistedWatermarkMonotonic ==
    (RunOver /\ outcome = "finished") => Watermark(file) = maxSaved

\* C8: parse of a non-multipart message of main type text yields exactly one
\* fragment, path "1" with the body decoded in the declared charset, and ends
\* without raising.
C8_PlainTextMessageYieldsItsBody ==
    (cur # 0 /\ mailbox[cur].maintype = "text" /\ ~mailbox[cur].is_list) =>
        /\ walk.raised = ""
        /\ walk.yielded =
              <<[path |-> <<"1">>,
                 text |-> Decode(mailbox[cur].body, get_charset(mailbox[cur]))]>>

\* The text parts of `part` reachable through multipart parts, each with its
\* sequence of 1-based child indices; idx is that sequence for `part`.
RECURSIVE TextLeaves(_, _)
TextLeaves(part, idx) ==
    IF part.maintype = "text" THEN {[idx |-> idx, part |-> part]}
    ELSE IF part.maintype = "multipart" /\ part.is_list
    THEN UNION {TextLeaves(part.parts[i], idx \o <<i>>) : i \in 1..Len(part.parts)}
    ELSE {}

\* Lexicographic order of index sequences of the same length.
RECURSIVE LexLess(_, _)
LexLess(a, b) ==
    /\ a # <<>>
    /\ \/ a[1] < b[1]
       \/ a[1] = b[1] /\ LexLess(Tail(a), Tail(b))

\* The order of a FIFO queue fed in declaration order: by depth, then
\* left to right.
QueueBefore(a, b) == Len(a) < Len(b) \/ (Len(a) = Len(b) /\ LexLess(a, b))

RECURSIVE InQueueOrder(_)
InQueueOrder(leaves) ==
    IF leaves = {} THEN <<>>
    ELSE LET first == CHOOSE x \in leaves :
                          \A y \in leaves \ {x} : QueueBefore(x.idx, y.idx)
         IN  <<first>> \o InQueueOrder(leaves \ {first})

\* "2.1" for <<2, 1>>
RECURSIVE DottedPath(_)
DottedPath(idx) ==
    IF Len(idx) = 1 THEN Str(idx[1])
    ELSE DottedPath(SubSeq(idx, 1, Len(idx) - 1)) \o <<".">> \o Str(idx[Len(idx)])

FragmentOf(leaf) ==
    [path |-> DottedPath(leaf.idx),
     text |-> Decode(leaf.part.body, get_charset(leaf.part))]

ExpectedFragments(msg) ==
    LET leaves == InQueueOrder(TextLeaves(msg, <<>>))
    IN  [k \in 1..Len(leaves) |-> FragmentOf(leaves[k])]

IsPrefix(a, b) == Len(a) <= Len(b) /\ a = SubSeq(b, 1, Len(a))

\* C9: for a multipart message parse yields the text parts in the order of a
\* FIFO queue, each with the dotted path of 1-based child indices that leads
\* to it: all of them when it ends normally, the first of them when it
\* raises; children [text, multipart[text, text]] give "1", "2.1", "2.2".
C9_MultipartFragmentsInQueueOrder ==
    (cur # 0 /\ mailbox[cur].maintype = "multipart") =>
        /\ IsPrefix(walk.yielded, ExpectedFragments(mailbox[cur]))
        /\ walk.raised = "" => walk.yielded = ExpectedFragments(mailbox[cur])
        /\ mailbox[cur] = MsgTextThenNested =>
              /\ walk.raised = ""
              /\ [k \in 1..Len(walk.yielded) |-> walk.yielded[k].path]
                    = <<<<"1">>, <<"2", ".", "1">>, <<"2", ".", "2">>>>

\* The walk of a three-level message has ended and main took its four
\* fragments.
C9_Witness ==
    /\ cur # 0 /\ mailbox[cur] = MsgDeep
    /\ pc = "loop" /\ fi = 4

\* The alert texts of an assignee change: a theme line of title, gap and
\* number, and an assignee line of A and B as GitLab's mail has it, in <p>.
AssigneeCases ==
    [title : {<<"Fix pipeline">>}, gap : {<<>>, <<" ">>}, num : {<<"4", "2">>},
     A : {<<"Ivanov Petr">>, <<"Petrov Vladimir">>},
     B : {<<"Ivanov Petr">>, <<"Petrov Vladimir">>}]

CaseText(c) ==
    HtmlText(<<ThemeLine(c.title, c.gap, c.num),
               AssigneeLine(<<"<p>">>, c.A, c.B, <<"</p>">>)>>)

CaseNotification(c) ==
    c.title \o <<" ">> \o <<"https://gitlab.omd.ru/dwh/omd-dwh/merge_requests/">> \o c.num
            \o <<" Assignee changed from *">> \o c.A \o <<"* to *">> \o c.B \o <<"*">>

\* C10: for a fragment text with an assignee line of A and B, one of them the
\* target name, and a theme line of title T and number N, the
\* assignment-change matcher and MailParser.parse return exactly
\* "T <link of N> Assignee changed from *A* to *B*", single spaces between;
\* checked where main holds the result it is about to send.
C10_AssigneeNotificationText ==
    (pc = "send") =>
        \A c \in AssigneeCases :
            (CaseText(c) = Fragment.text /\ target \in {c.A, c.B}) =>
                /\ AssigneeAlert_get_result(Fragment.text) = Some(CaseNotification(c))
                /\ result = Some(CaseNotification(c))

\* The texts of a merge notice: a theme line of title and number, and the
\* line `Merge Request !N was merged` between `before` and `after`.
MergeCases ==
    [title : {<<"Add index">>}, num : {<<"1", "7">>},
     wrap : {<<<<>>, <<>>>>, <<<<"<p>">>, <<"</p>">>>>}]

MergeCaseText(c) ==
    HtmlText(<<ThemeLine(c.title, <<>>, c.num), MergeLine(c.wrap[1], c.num, c.wrap[2])>>)

MergeCaseNotification(c) ==
    <<"Merged ">> \o c.title \o <<" ">>
        \o <<"https://gitlab.omd.ru/dwh/omd-dwh/merge_requests/">> \o c.num

\* C11: for a fragment text with the line `Merge Request !N was merged`,
\* whether or not anything stands before or after it on the line, and a theme
\* line of title T for the same request, the merge-done matcher returns
\* "Merged T <link of N>".
C11_MergeDoneNotificationText ==
    HasFragment =>
        \A c \in MergeCases :
            (MergeCaseText(c) = Fragment.text) =>
                MergeDoneAlert_get_result(Fragment.text) = Some(MergeCaseNotification(c))

\* C12: whatever failure a fetched message causes while it is fetched,
\* walked, matched or dispatched, the watermark on file when that run is over
\* is at least its identifier, so that no later run fetches it again.
C12_PoisonMessageAdvancesWatermark ==
    (RunOver /\ fails \subseteq {"read", "fetch", "parse", "write_html", "send_http", "send_url"}) =>
        \A i \in 1..Len(fetched) : Watermark(file) >= fetched[i]

\* Document order of index sequences: a[1..] before b[1..] where they first
\* differ (no text part is an ancestor of another).
RECURSIVE DocBefore(_, _)
DocBefore(a, b) ==
    /\ a # <<>> /\ b # <<>>
    /\ \/ a[1] < b[1]
       \/ a[1] = b[1] /\ DocBefore(Tail(a), Tail(b))

RECURSIVE InDocumentOrder(_)
InDocumentOrder(leaves) ==
    IF leaves = {} THEN <<>>
    ELSE LET first == CHOOSE x \in leaves :
                          \A y \in leaves \ {x} : DocBefore(x.idx, y.idx)
         IN  <<first>> \o InDocumentOrder(leaves \ {first})

DocumentOrderFragments(msg) ==
    LET leaves == InDocumentOrder(TextLeaves(msg, <<>>))
    IN  [k \in 1..Len(leaves) |-> FragmentOf(leaves[k])]

\* C13: parse emits the text fragments in the left-to-right document order of
\* the tree, the fragments under a part before those of its later siblings;
\* children [multipart[text], text] give "1.1" before "2".
C13_FragmentsInDocumentOrder ==
    (cur # 0 /\ mailbox[cur].maintype = "multipart" /\ walk.raised = "") =>
        walk.yielded = DocumentOrderFragments(mailbox[cur])

\* A tree the walker can decode: every multipart part has a list of parts and
\* every text part a charset Python has a codec for.
RECURSIVE Decodable(_)
Decodable(part) ==
    IF part.maintype = "multipart"
    THEN part.is_list /\ \A i \in 1..Len(part.parts) : Decodable(part.parts[i])
    ELSE ~part.is_list /\ (part.maintype = "text" => get_charset(part) \in KnownCodecs)

\* C14: parse yields exactly one fragment for each text part reachable from
\* the root through multipart parts and nothing else; a root that is neither
\* text nor multipart gives zero fragments and no error.
C14_ExactlyTheReachableTextParts ==
    (cur # 0 /\ mailbox[cur].maintype # "text" /\ Decodable(mailbox[cur])) =>
        /\ walk.raised = ""
        /\ Len(walk.yielded) = Cardinality(TextLeaves(mailbox[cur], <<>>))
        /\ {walk.yielded[k] : k \in 1..Len(walk.yielded)}
              = {FragmentOf(leaf) : leaf \in TextLeaves(mailbox[cur], <<>>)}

\* The number of parts of a message: itself and, below a multipart, the parts
\* of each of its sub-messages.
RECURSIVE CountParts(_)
RECURSIVE SumParts(_)
SumParts(parts) ==
    IF parts = <<>> THEN 0 ELSE CountParts(Head(parts)) + SumParts(Tail(parts))
CountParts(part) ==
    1 + (IF part.maintype = "multipart" /\ part.is_list THEN SumParts(part.parts) ELSE 0)

\* C15: the traversal of a finite tree terminates: the number of pops never
\* exceeds the number of parts of the message, main takes no more fragments
\* than were popped, and a generator that ends normally has popped every part
\* below the root exactly once, leaving the queue empty.
C15_TraversalTerminates ==
    (cur # 0) =>
        /\ walk.pops <= CountParts(mailbox[cur])
        /\ fi <= Len(walk.yielded) /\ Len(walk.yielded) <= walk.pops
        /\ (walk.raised = "" /\ mailbox[cur].maintype = "multipart") =>
              walk.pops = CountParts(mailbox[cur]) - 1

\* The walk of the three-level message has ended after popping each of its
\* eight parts below the root.
C15_Witness ==
    /\ cur # 0 /\ mailbox[cur] = MsgDeep
    /\ pc = "loop" /\ walk.raised = "" /\ walk.pops = 8
    /\ CountParts(MsgDeep) = 9

\* main holds in `result` what MailParser.parse returned for ParsedText.
ParsedSome ==
    \/ pc = "send"
    \/ /\ pc \in {"frag", "loop"}
       /\ fi >= 1 /\ fi <= Len(walk.yielded)
       /\ StartsWithHtml(walk.yielded[fi].text)
ParsedText == IF pc = "send" THEN Fragment.text ELSE walk.yielded[fi].text

\* C16: MailParser.parse returns the notification of the assignment-change
\* matcher when that matcher produces one, whatever the merge-done matcher
\* would return, and otherwise (no assignee line, or one without the target)
\* what the merge-done matcher returns.
C16_FirstMatcherWins ==
    ParsedSome =>
        /\ AssigneeAlert_get_result(ParsedText).some =>
              result = AssigneeAlert_get_result(ParsedText)
        /\ ~AssigneeAlert_get_result(ParsedText).some =>
              result = MergeDoneAlert_get_result(ParsedText)

\* Both matchers have a notification for the text; main is about to send the
\* one of the assignment change.
C16_Witness ==
    /\ pc = "send" /\ Fragment.text = TextBoth
    /\ AssigneeAlert_get_result(TextBoth).some
    /\ MergeDoneAlert_get_result(TextBoth).some
    /\ result = AssigneeAlert_get_result(TextBoth)
    /\ result # MergeDoneAlert_get_result(TextBoth)

\* The lines of the text that are assignee changes, and the first of them.
AssigneeLines(text) ==
    {i \in 1..Len(SplitLines(text)) : assignee_re(SplitLines(text)[i]).ok}
FirstAssigneeLine(text) ==
    SplitLines(text)[CHOOSE i \in AssigneeLines(text) : \A j \in AssigneeLines(text) : i <= j]
NamesTarget(line) == target \in {assignee_re(line).g1, assignee_re(line).g2}

\* C17: when neither name of the first assignee-change line of a text is the
\* target, the assignment-change matcher returns no notification, also when
\* a later line is an assignee change that names the target; main's result
\* is then the one of the merge-done matcher.
C17_FirstAssigneeLineDecides ==
    (ParsedSome /\ AssigneeLines(ParsedText) # {}
                /\ ~NamesTarget(FirstAssigneeLine(ParsedText))) =>
        /\ AssigneeAlert_get_result(ParsedText) = None
        /\ result = MergeDoneAlert_get_result(ParsedText)

\* The first assignee change is between two other people, the second names
\* the target; the fragment was matched and nothing was sent.
C17_Witness ==
    /\ ParsedSome /\ pc = "frag" /\ ParsedText = TextOtherThenTarget
    /\ Cardinality(AssigneeLines(ParsedText)) = 2
    /\ ~NamesTarget(FirstAssigneeLine(ParsedText))
    /\ \E i \in AssigneeLines(ParsedText) : NamesTarget(SplitLines(ParsedText)[i])
    /\ result = None /\ sentRun[cur] = 0

\* C18: once the connection has been opened, close is called on it on every
\* way out of the run: it is open only between __enter__ and the end of the
\* with block, and it has been closed when save_uid is reached and when a
\* run is over, however the run ended, unless it could not be opened at all.
C18_ConnectionClosedOnEveryExit ==
    /\ conn = "open" => pc \in {"list", "loop", "frag", "send"}
    /\ pc = "save" => conn = "closed"
    /\ (RunOver /\ "connect" \notin fails) => conn = "closed"

\* A run that ended with an exception of the walker has closed the
\* connection.
C18_Witness ==
    /\ RunOver /\ outcome = "raised" /\ "parse" \in fails
    /\ conn = "closed"

\* The text does not begin with the five characters '<html'.
LacksHtmlPrefix(text) == text = <<>> \/ Head(text) # "<html"

\* C19: a fragment that does not start with '<html' is never passed to the
\* matchers and never produces a notification, whatever its lines are: the
\* step that takes it leaves `result` and the sends as they were, and main
\* is about to send only for a fragment that starts with '<html'.
C19_OnlyHtmlFragmentsAreMatched ==
    /\ [](pc = "send" => ~LacksHtmlPrefix(Fragment.text))
    /\ [][(HasFragment /\ LacksHtmlPrefix(Fragment.text)) =>
              (result' = result /\ sentRun' = sentRun /\ pc' # "send")]_vars

\* The only fragment of the message is an alert text without the prefix:
\* it was taken and skipped, although the matchers have a notification for it.
C19_Witness ==
    /\ cur # 0 /\ mailbox[cur] = MsgBareOnly
    /\ pc = "loop" /\ fi = 1 /\ walk.yielded[1].text = TextBareAssignee
    /\ MailParser_parse(TextBareAssignee).some
    /\ result = None /\ sentRun[cur] = 0

====
